---- MODULE Spec2Model ----
(***************************************************************************)
(* The typed value-matching and comparison engine of package datalist      *)
(* (internal/datalist/values.go): floatApproxEquals, valueMatches and      *)
(* compareValues, and the sort that uses compareValues as its comparator.  *)
(*                                                                         *)
(* Representation of the Go values:                                        *)
(*   string      a sequence of bytes (natural numbers)                     *)
(*   bool        BOOLEAN                                                   *)
(*   int         an integer (only compared, never computed with)           *)
(*   float64     a record [k, n]: k = "fin" with n the value in grid units *)
(*               of 0.0000005 (so 0.000001 is Epsilon = 2 units), or NaN,  *)
(*               +Inf, -Inf with the IEEE-754 rules for -, Abs, <, >, !=   *)
(*   []interface{}, schema.Set.List()   a sequence of values               *)
(*   regexp.Regexp    a record [anchored, lit]: the pattern `lit` or       *)
(*               `^lit` for a literal lit                                  *)
(*   schema.Schema    the sequence of its type tags, outermost first:      *)
(*               Type is the head, Elem the tail                           *)
(* Every call is made with values whose shape agrees with the schema (the  *)
(* caller's obligation), so the type assertions of the code never fail.    *)
(***************************************************************************)
EXTENDS Integers, Sequences, FiniteSets, TLC

VARIABLES
    op,          \* the function called: "valueMatches", "compareValues", "sort"
    schema,      \* s *schema.Schema
    value,       \* valueMatches: value
    filterValue, \* valueMatches: filterValue
    matchBy,     \* valueMatches: matchBy
    value1,      \* compareValues: value1
    value2,      \* compareValues: value2
    records,     \* sort: the sequence to order
    result,      \* what the call returned
    pc           \* "start", "done" (returned) or "panic"

vars == <<op, schema, value, filterValue, matchBy, value1, value2, records, result, pc>>

----------------------------------------------------------------------------
(* Bounds of the checked instance *)

MaxStrLen == 2      \* longest string
MaxInt == 1         \* ints range over -MaxInt..MaxInt
MaxFloat == 2       \* finite floats range over -MaxFloat..MaxFloat grid units
MaxLen == 2         \* longest List / Set
MaxSortLen == 3     \* longest sequence that is sorted

Alphabet == {65, 97, 98}    \* the bytes 'A', 'a', 'b'

----------------------------------------------------------------------------
(* float64 *)

Epsilon == 2        \* 0.000001 in grid units

F(n) == [k |-> "fin", n |-> n]
NaN == [k |-> "nan", n |-> 0]
PosInf == [k |-> "inf", n |-> 1]
NegInf == [k |-> "inf", n |-> -1]

IsFin(a) == a.k = "fin"

\* a - b
FSub(a, b) ==
    IF a.k = "nan" \/ b.k = "nan" THEN NaN
    ELSE IF a.k = "inf" THEN (IF b.k = "inf" /\ b.n = a.n THEN NaN ELSE a)
    ELSE IF b.k = "inf" THEN [k |-> "inf", n |-> -b.n]
    ELSE F(a.n - b.n)

\* math.Abs(a)
FAbs(a) ==
    IF a.k = "nan" THEN NaN
    ELSE IF a.k = "inf" THEN PosInf
    ELSE F(IF a.n < 0 THEN -a.n ELSE a.n)

\* a < b
FLt(a, b) ==
    IF a.k = "nan" \/ b.k = "nan" THEN FALSE
    ELSE IF a.k = "inf" THEN a.n < 0 /\ b # a
    ELSE IF b.k = "inf" THEN b.n > 0
    ELSE a.n < b.n

\* a > b
FGt(a, b) == FLt(b, a)

\* a != b
FNe(a, b) == a.k = "nan" \/ b.k = "nan" \/ a # b

floatApproxEquals(a, b) == FLt(FAbs(FSub(a, b)), F(Epsilon))

----------------------------------------------------------------------------
(* package strings, package regexp *)

\* the simple case folding of a byte
Fold(c) == IF c \in 65..90 THEN c + 32 ELSE c

\* strings.EqualFold(s, t)
EqualFold(s, t) ==
    /\ Len(s) = Len(t)
    /\ \A i \in 1..Len(s) : Fold(s[i]) = Fold(t[i])

\* strings.Contains(s, substr)
Contains(s, substr) ==
    \E i \in 0..(Len(s) - Len(substr)) : SubSeq(s, i + 1, i + Len(substr)) = substr

\* strings.HasPrefix(s, prefix)
HasPrefix(s, prefix) ==
    Len(prefix) <= Len(s) /\ SubSeq(s, 1, Len(prefix)) = prefix

RECURSIVE Compare(_, _)
\* strings.Compare(a, b)
Compare(a, b) ==
    IF a = <<>> /\ b = <<>> THEN 0
    ELSE IF a = <<>> THEN -1
    ELSE IF b = <<>> THEN 1
    ELSE IF Head(a) < Head(b) THEN -1
    ELSE IF Head(a) > Head(b) THEN 1
    ELSE Compare(Tail(a), Tail(b))

\* regexp.Regexp.MatchString(s)
MatchString(re, s) == IF re.anchored THEN HasPrefix(s, re.lit) ELSE Contains(s, re.lit)

----------------------------------------------------------------------------
(* schema.Schema *)

Type(s) == Head(s)
Elem(s) == Tail(s)

Modes == {"", "substring", "re", "less_than", "less_than_or_equal",
          "greater_than", "greater_than_or_equal", "between"}

----------------------------------------------------------------------------
(* valueMatches *)

RECURSIVE valueMatches(_, _, _, _)
RECURSIVE rangeOr(_, _, _, _, _)

\* substring mode with the operands of strings.Contains exchanged
valueMatchesString_ContainsSwapped(val, filter, mode) ==
    IF mode = "substring" THEN Contains(filter, val)
    ELSE IF mode = "re" THEN MatchString(filter, val)
    ELSE EqualFold(filter, val)

\* case schema.TypeString
valueMatchesString(val, filter, mode) ==
    IF mode = "substring" THEN Contains(val, filter)
    ELSE IF mode = "re" THEN MatchString(filter, val)
    ELSE EqualFold(filter, val)

\* case schema.TypeBool
valueMatchesBool(val, filter, mode) == filter = val

\* an unknown mode rejected instead of falling through to equality
valueMatchesInt_Strict(val, filter, mode) ==
    CASE mode = "less_than" -> val < filter
      [] mode = "less_than_or_equal" -> val <= filter
      [] mode = "greater_than" -> val > filter
      [] mode = "greater_than_or_equal" -> val >= filter
      [] mode = "" -> val = filter
      [] OTHER -> FALSE

\* the filter on the left of each relational operator
valueMatchesInt_Swapped(val, filter, mode) ==
    CASE mode = "less_than" -> filter < val
      [] mode = "less_than_or_equal" -> filter <= val
      [] mode = "greater_than" -> filter > val
      [] mode = "greater_than_or_equal" -> filter >= val
      [] OTHER -> val = filter

\* case schema.TypeInt
valueMatchesInt(val, filter, mode) ==
    CASE mode = "less_than" -> val < filter
      [] mode = "less_than_or_equal" -> val <= filter
      [] mode = "greater_than" -> val > filter
      [] mode = "greater_than_or_equal" -> val >= filter
      [] OTHER -> val = filter

\* the relational modes without the val != 0. guard
valueMatchesFloat_ZeroMatches(val, filter, mode) ==
    CASE mode = "less_than" -> FLt(val, filter)
      [] mode = "less_than_or_equal" ->
            FLt(val, filter) \/ floatApproxEquals(filter, val)
      [] mode = "greater_than" -> FGt(val, filter)
      [] mode = "greater_than_or_equal" ->
            FGt(val, filter) \/ floatApproxEquals(filter, val)
      [] OTHER -> floatApproxEquals(filter, val)

\* the or_equal modes without the tolerance
valueMatchesFloat_NoTolerance(val, filter, mode) ==
    CASE mode = "less_than" -> FNe(val, F(0)) /\ FLt(val, filter)
      [] mode = "less_than_or_equal" ->
            FNe(val, F(0)) /\ (FLt(val, filter) \/ val = filter)
      [] mode = "greater_than" -> FNe(val, F(0)) /\ FGt(val, filter)
      [] mode = "greater_than_or_equal" ->
            FNe(val, F(0)) /\ (FGt(val, filter) \/ val = filter)
      [] OTHER -> floatApproxEquals(filter, val)

\* case schema.TypeFloat
valueMatchesFloat(val, filter, mode) ==
    CASE mode = "less_than" -> FNe(val, F(0)) /\ FLt(val, filter)
      [] mode = "less_than_or_equal" ->
            FNe(val, F(0)) /\ (FLt(val, filter) \/ floatApproxEquals(filter, val))
      [] mode = "greater_than" -> FNe(val, F(0)) /\ FGt(val, filter)
      [] mode = "greater_than_or_equal" ->
            FNe(val, F(0)) /\ (FGt(val, filter) \/ floatApproxEquals(filter, val))
      [] OTHER -> floatApproxEquals(filter, val)

\* for _, listValue := range listValues { ... result = result || valueDoesMatch }
rangeOr(s, listValues, filter, mode, res) ==
    IF listValues = <<>> THEN res
    ELSE LET valueDoesMatch == valueMatches(Elem(s), Head(listValues), filter, mode)
         IN  rangeOr(s, Tail(listValues), filter, mode, res \/ valueDoesMatch)

RECURSIVE rangeLast(_, _, _, _, _)
\* the loop with result = valueDoesMatch in place of result = result || valueDoesMatch
rangeLast(s, listValues, filter, mode, res) ==
    IF listValues = <<>> THEN res
    ELSE LET valueDoesMatch == valueMatches(Elem(s), Head(listValues), filter, mode)
         IN  rangeLast(s, Tail(listValues), filter, mode, valueDoesMatch)

\* the List loop keeping only the last element's result
valueMatchesList_Last(s, listValues, filter, mode) ==
    rangeLast(s, listValues, filter, mode, FALSE)

\* case schema.TypeList
valueMatchesList(s, listValues, filter, mode) ==
    rangeOr(s, listValues, filter, mode, FALSE)

\* setValue.List(): the elements of the set, each once, in the order the set yields
List(setValue) == setValue

\* case schema.TypeSet
valueMatchesSet(s, setValue, filter, mode) ==
    LET listValues == List(setValue)
    IN  rangeOr(s, listValues, filter, mode, FALSE)

valueMatches(s, val, filter, mode) ==
    CASE Type(s) = "TypeString" -> valueMatchesString(val, filter, mode)
      [] Type(s) = "TypeBool" -> valueMatchesBool(val, filter, mode)
      [] Type(s) = "TypeInt" -> valueMatchesInt(val, filter, mode)
      [] Type(s) = "TypeFloat" -> valueMatchesFloat(val, filter, mode)
      [] Type(s) = "TypeList" -> valueMatchesList(s, val, filter, mode)
      [] Type(s) = "TypeSet" -> valueMatchesSet(s, val, filter, mode)
      [] OTHER -> FALSE

----------------------------------------------------------------------------
(* compareValues *)

Return(v) == [panic |-> FALSE, val |-> v]
\* panic("Illegal state: Unsupported value type for sort")
Panic == [panic |-> TRUE, val |-> 0]

\* case schema.TypeString
compareValuesString(a, b) == Compare(a, b)

\* the last two branches merged: every unequal pair ordered the same way
compareValuesBool_OneWay(boolValue1, boolValue2) ==
    IF boolValue1 = boolValue2 THEN 0
    ELSE -1

\* case schema.TypeBool
compareValuesBool(boolValue1, boolValue2) ==
    IF boolValue1 = boolValue2 THEN 0
    ELSE IF ~boolValue1 THEN -1
    ELSE 1

\* case schema.TypeInt
compareValuesInt(intValue1, intValue2) ==
    IF intValue1 < intValue2 THEN -1
    ELSE IF intValue1 > intValue2 THEN 1
    ELSE 0

\* the order tested before the tolerance
compareValuesFloat_OrderFirst(floatValue1, floatValue2) ==
    IF FLt(floatValue1, floatValue2) THEN -1
    ELSE IF FGt(floatValue1, floatValue2) THEN 1
    ELSE 0

\* the final else branch dropped: whatever is not less is greater
compareValuesFloat_NoFallback(floatValue1, floatValue2) ==
    IF floatApproxEquals(floatValue1, floatValue2) THEN 0
    ELSE IF FLt(floatValue1, floatValue2) THEN -1
    ELSE 1

\* case schema.TypeFloat
compareValuesFloat(floatValue1, floatValue2) ==
    IF floatApproxEquals(floatValue1, floatValue2) THEN 0
    ELSE IF FLt(floatValue1, floatValue2) THEN -1
    ELSE IF FGt(floatValue1, floatValue2) THEN 1
    ELSE 0

\* the default branch returning 0 instead of panicking
compareValues_DefaultZero(s, a, b) ==
    CASE Type(s) = "TypeString" -> Return(compareValuesString(a, b))
      [] Type(s) = "TypeBool" -> Return(compareValuesBool(a, b))
      [] Type(s) = "TypeInt" -> Return(compareValuesInt(a, b))
      [] Type(s) = "TypeFloat" -> Return(compareValuesFloat(a, b))
      [] OTHER -> Return(0)

compareValues(s, a, b) ==
    CASE Type(s) = "TypeString" -> Return(compareValuesString(a, b))
      [] Type(s) = "TypeBool" -> Return(compareValuesBool(a, b))
      [] Type(s) = "TypeInt" -> Return(compareValuesInt(a, b))
      [] Type(s) = "TypeFloat" -> Return(compareValuesFloat(a, b))
      [] OTHER -> Panic

----------------------------------------------------------------------------
(* Sorting with compareValues as the comparator: the insertion sort that    *)
(* sort.Slice runs on a short slice, with less(i, j) = compareValues(s,     *)
(* data[i], data[j]) < 0.                                                   *)

less(s, a, b) == compareValues(s, a, b).val < 0

Swap(data, i, j) == [data EXCEPT ![i] = data[j], ![j] = data[i]]

RECURSIVE siftDown(_, _, _)
\* for j := i; j > a && less(data[j], data[j-1]); j-- { swap(j, j-1) }
siftDown(s, data, j) ==
    IF j > 1 /\ less(s, data[j], data[j - 1])
    THEN siftDown(s, Swap(data, j, j - 1), j - 1)
    ELSE data

RECURSIVE insertionSort(_, _, _)
\* for i := a + 1; i < b; i++ { ... }
insertionSort(s, data, i) ==
    IF i > Len(data) THEN data
    ELSE insertionSort(s, siftDown(s, data, i), i + 1)

sortRecords(s, data) == insertionSort(s, data, 2)

----------------------------------------------------------------------------
(* The values a call can be made with *)

RECURSIVE SeqsOfLen(_, _)
SeqsOfLen(S, n) ==
    IF n = 0 THEN {<<>>}
    ELSE {Append(q, x) : q \in SeqsOfLen(S, n - 1), x \in S}

SeqsUpTo(S, n) == UNION {SeqsOfLen(S, k) : k \in 0..n}

NoDuplicates(q) == \A i, j \in 1..Len(q) : q[i] = q[j] => i = j

Strings == SeqsUpTo(Alphabet, MaxStrLen)
\* the strings a collection or a sorted sequence holds
ElemStrings == SeqsOfLen(Alphabet, MaxStrLen - 1)
\* the strings a collection is filtered by, and the literals of the patterns
ShortStrings == SeqsUpTo(Alphabet, MaxStrLen - 1)
Ints == (-MaxInt)..MaxInt
Floats == {F(n) : n \in (-MaxFloat)..MaxFloat} \cup {NaN, PosInf, NegInf}
Regexps == [anchored : BOOLEAN, lit : ShortStrings]

ScalarTypes == {"TypeString", "TypeBool", "TypeInt", "TypeFloat"}

\* schema.TypeMap stands for the types neither function has a case for
MatchSchemas ==
    {<<t>> : t \in ScalarTypes \cup {"TypeMap"}}
    \cup {<<"TypeList", t>> : t \in ScalarTypes}
    \cup {<<"TypeSet", t>> : t \in {"TypeBool", "TypeInt"}}
    \cup {<<"TypeList", "TypeSet", "TypeBool">>, <<"TypeSet", "TypeList", "TypeBool">>}

CompareSchemas ==
    {<<t>> : t \in ScalarTypes \cup {"TypeMap"}}
    \cup {<<"TypeList", "TypeBool">>, <<"TypeSet", "TypeBool">>}

SortSchemas == {<<t>> : t \in ScalarTypes}

Scalars(t) ==
    CASE t = "TypeString" -> Strings
      [] t = "TypeBool" -> BOOLEAN
      [] t = "TypeInt" -> Ints
      [] t = "TypeFloat" -> Floats

RECURSIVE Elems(_)
\* the values of schema s that a collection holds
Elems(s) ==
    CASE Type(s) = "TypeString" -> ElemStrings
      [] Type(s) = "TypeList" -> SeqsUpTo(Elems(Elem(s)), MaxLen)
      [] Type(s) = "TypeSet" -> {q \in SeqsUpTo(Elems(Elem(s)), MaxLen) : NoDuplicates(q)}
      [] Type(s) = "TypeMap" -> {<<>>}
      [] OTHER -> Scalars(Type(s))

Values(s) == IF Type(s) \in ScalarTypes THEN Scalars(Type(s)) ELSE Elems(s)

Leaf(s) == s[Len(s)]

\* the filter values of a call on schema s: of the type of the scalars in the
\* value, and a compiled pattern in mode "re" on strings
Filters(s, mode) ==
    CASE Leaf(s) = "TypeMap" -> {<<>>}
      [] Leaf(s) = "TypeString" /\ mode = "re" -> Regexps
      [] Leaf(s) = "TypeString" /\ mode # "re" ->
            IF Len(s) = 1 THEN Strings ELSE ShortStrings
      [] OTHER -> Scalars(Leaf(s))

----------------------------------------------------------------------------
(* The calls *)

Init ==
    /\ pc = "start"
    /\ result = <<>>
    /\ \/ /\ op = "valueMatches"
          /\ schema \in MatchSchemas
          /\ matchBy \in Modes
          /\ value \in Values(schema)
          /\ filterValue \in Filters(schema, matchBy)
          /\ value1 = <<>> /\ value2 = <<>> /\ records = <<>>
       \/ /\ op = "compareValues"
          /\ schema \in CompareSchemas
          /\ value1 \in Values(schema)
          /\ value2 \in Values(schema)
          /\ value = <<>> /\ filterValue = <<>> /\ matchBy = "" /\ records = <<>>
       \/ /\ op = "sort"
          /\ schema \in SortSchemas
          /\ records \in SeqsUpTo(Elems(schema), MaxSortLen)
          /\ value = <<>> /\ filterValue = <<>> /\ matchBy = ""
          /\ value1 = <<>> /\ value2 = <<>>

args == <<op, schema, value, filterValue, matchBy, value1, value2, records>>

\* a call of valueMatches
Match ==
    /\ pc = "start"
    /\ op = "valueMatches"
    /\ result' = valueMatches(schema, value, filterValue, matchBy)
    /\ pc' = "done"
    /\ UNCHANGED args

\* a call of compareValues that returns
CompareReturn ==
    /\ pc = "start"
    /\ op = "compareValues"
    /\ ~compareValues(schema, value1, value2).panic
    /\ result' = compareValues(schema, value1, value2).val
    /\ pc' = "done"
    /\ UNCHANGED args

\* a call of compareValues that panics
ComparePanic ==
    /\ pc = "start"
    /\ op = "compareValues"
    /\ compareValues(schema, value1, value2).panic
    /\ pc' = "panic"
    /\ UNCHANGED <<args, result>>

\* a sort of records by compareValues
Sort ==
    /\ pc = "start"
    /\ op = "sort"
    /\ result' = sortRecords(schema, records)
    /\ pc' = "done"
    /\ UNCHANGED args

Next == Match \/ CompareReturn \/ ComparePanic \/ Sort

Spec == Init /\ [][Next]_vars

----------------------------------------------------------------------------
(* Properties *)

Matched == op = "valueMatches" /\ pc = "done"
Compared == op = "compareValues" /\ pc = "done"
Sorted == op = "sort" /\ pc = "done"

RelationalModes == {"less_than", "less_than_or_equal", "greater_than", "greater_than_or_equal"}

\* |a - b| < 0.000001 over the reals
Near(a, b) == IsFin(a) /\ IsFin(b) /\ a.n - b.n < Epsilon /\ b.n - a.n < Epsilon

LowerCase(str) == [i \in 1..Len(str) |-> IF str[i] \in 65..90 THEN str[i] + 32 ELSE str[i]]

IsSubstring(sub, str) == \E i \in 1..(Len(str) + 1), j \in 0..Len(str) : SubSeq(str, i, j) = sub

RECURSIVE DefaultEquals(_, _, _)
\* equality as each type defines it, of a scalar or of some element of a collection
DefaultEquals(s, v, f) ==
    CASE Type(s) = "TypeString" -> LowerCase(v) = LowerCase(f)
      [] Type(s) \in {"TypeBool", "TypeInt"} -> v = f
      [] Type(s) = "TypeFloat" -> Near(v, f)
      [] Type(s) \in {"TypeList", "TypeSet"} ->
            \E i \in 1..Len(v) : DefaultEquals(Elem(s), v[i], f)
      [] OTHER -> FALSE

\* the modes a scalar type has no case for
Unsupported(t, mode) ==
    CASE t = "TypeString" -> mode \notin {"", "substring", "re"}
      [] t = "TypeBool" -> mode # ""
      [] t \in {"TypeInt", "TypeFloat"} -> mode \notin RelationalModes \cup {""}
      [] OTHER -> FALSE

RECURSIVE Reorder(_, _, _)
\* the sequence q[p[1]], ..., q[p[n]]
Reorder(q, p, n) == IF n = 0 THEN <<>> ELSE Append(Reorder(q, p, n - 1), q[p[n]])

\* C1: on a Float schema a value of exactly 0.0 matches no filter under any of
\* the four relational modes.
C1_ZeroNeverMatchesRelational ==
    (Matched /\ schema = <<"TypeFloat">> /\ value = F(0) /\ matchBy \in RelationalModes)
        => result = FALSE

C1_Witness ==
    /\ Matched /\ schema = <<"TypeFloat">> /\ matchBy = "less_than"
    /\ value = F(0) /\ filterValue = F(1) /\ result = FALSE

\* C2: two floats less than 0.000001 apart match each other in the default mode
\* and compare as 0, whichever of the two is the larger.
C2_NearFloatsEqual ==
    /\ (Matched /\ schema = <<"TypeFloat">> /\ matchBy = "" /\ Near(value, filterValue))
          => result = TRUE
    /\ (Compared /\ schema = <<"TypeFloat">> /\ Near(value1, value2))
          => result = 0

C2_Witness ==
    /\ Compared /\ schema = <<"TypeFloat">>
    /\ value1 = F(1) /\ value2 = F(0) /\ result = 0

\* C3: compareValues on a schema that is not String, Bool, Int or Float panics and
\* returns nothing, whatever the two values are.
C3_CompareUnorderablePanics ==
    (op = "compareValues" /\ Type(schema) \notin ScalarTypes /\ pc # "start")
        => (pc = "panic" /\ result = <<>>)

C3_Witness ==
    /\ op = "compareValues" /\ pc = "panic" /\ Type(schema) = "TypeList"
    /\ value1 = <<TRUE>> /\ value2 = <<FALSE>>

\* C4: valueMatches never panics; it returns a boolean, which is false for a type
\* it has no case for and the type's default equality for a mode the type does
\* not support.
C4_MatchNeverRaises ==
    /\ op = "valueMatches" => pc # "panic"
    /\ Matched =>
          /\ result \in BOOLEAN
          /\ Type(schema) = "TypeMap" => result = FALSE
          /\ Unsupported(Leaf(schema), matchBy)
                => result = DefaultEquals(schema, value, filterValue)

C4_Witness ==
    /\ Matched /\ schema = <<"TypeInt">> /\ matchBy = "re"
    /\ value = 0 /\ filterValue = 0 /\ result = TRUE

\* C5: a List or Set matches iff at least one of its elements matches under the
\* element schema with the same filter and mode; an empty one does not match;
\* the order of the elements does not change the result.
C5_CollectionMatchesAnyElement ==
    (Matched /\ Type(schema) \in {"TypeList", "TypeSet"}) =>
        /\ result = (\E i \in 1..Len(value) :
                        valueMatches(Elem(schema), value[i], filterValue, matchBy))
        /\ value = <<>> => result = FALSE
        /\ \A p \in Permutations(1..Len(value)) :
              valueMatches(schema, Reorder(value, p, Len(value)), filterValue, matchBy)
                  = result

C5_Witness ==
    /\ Matched /\ schema = <<"TypeList", "TypeInt">> /\ matchBy = ""
    /\ value = <<1, 0>> /\ filterValue = 1 /\ result = TRUE

\* C6: in a sequence sorted with compareValues as the comparator every element
\* compares <= 0 with the next one.
C6_SortedAdjacent ==
    Sorted => \A i \in 1..(Len(result) - 1) :
                  compareValues(schema, result[i], result[i + 1]).val <= 0

C6_Witness ==
    /\ Sorted /\ schema = <<"TypeFloat">>
    /\ records = <<F(2), F(0), F(-2)>> /\ result = <<F(-2), F(0), F(2)>>

\* C7: on a Float schema a non-zero value v matches filter f under
\* less_than_or_equal iff v < f or |v-f| < 0.000001, under greater_than_or_equal
\* iff v > f or |v-f| < 0.000001, under less_than iff v < f, under greater_than
\* iff v > f, and under any other mode iff |v-f| < 0.000001.
C7_FloatModes ==
    (Matched /\ schema = <<"TypeFloat">> /\ FNe(value, F(0))) =>
        result = CASE matchBy = "less_than" -> FLt(value, filterValue)
                   [] matchBy = "less_than_or_equal" ->
                         FLt(value, filterValue) \/ Near(value, filterValue)
                   [] matchBy = "greater_than" -> FGt(value, filterValue)
                   [] matchBy = "greater_than_or_equal" ->
                         FGt(value, filterValue) \/ Near(value, filterValue)
                   [] OTHER -> Near(value, filterValue)

C7_Witness ==
    /\ Matched /\ schema = <<"TypeFloat">> /\ matchBy = "less_than_or_equal"
    /\ value = F(2) /\ filterValue = F(1) /\ result = TRUE

\* C8: on an Int schema the four relational modes are value < filter,
\* value <= filter, value > filter, value >= filter, with zero an ordinary value,
\* and every other mode is value == filter.
C8_IntModes ==
    (Matched /\ schema = <<"TypeInt">>) =>
        result = CASE matchBy = "less_than" -> value < filterValue
                   [] matchBy = "less_than_or_equal" -> value <= filterValue
                   [] matchBy = "greater_than" -> value > filterValue
                   [] matchBy = "greater_than_or_equal" -> value >= filterValue
                   [] OTHER -> value = filterValue

C8_Witness ==
    /\ Matched /\ schema = <<"TypeInt">> /\ matchBy = "less_than"
    /\ value = 0 /\ filterValue = 1 /\ result = TRUE

\* C9: on a String schema substring mode is true iff the value contains the
\* filter as a contiguous, case-sensitive substring, and every mode other than
\* substring and re is true iff value and filter are equal ignoring case.
C9_StringModes ==
    (Matched /\ schema = <<"TypeString">> /\ matchBy # "re") =>
        result = IF matchBy = "substring"
                 THEN IsSubstring(filterValue, value)
                 ELSE LowerCase(value) = LowerCase(filterValue)

C9_Witness ==
    /\ Matched /\ schema = <<"TypeString">> /\ matchBy = "substring"
    /\ value = <<97, 98>> /\ filterValue = <<98>> /\ result = TRUE

\* C10: on String, Bool, Int and Float compareValues returns -1, 0 or 1, with
\* compare(a, b) = -compare(b, a), and compare(a, b) = -1 and compare(b, c) = -1
\* imply compare(a, c) = -1.
C10_StrictOrder ==
    (Compared /\ Type(schema) \in ScalarTypes) =>
        /\ result \in {-1, 0, 1}
        /\ result = -compareValues(schema, value2, value1).val
        /\ \A c \in Values(schema) :
              (result = -1 /\ compareValues(schema, value2, c).val = -1)
                  => compareValues(schema, value1, c).val = -1

C10_Witness ==
    /\ Compared /\ schema = <<"TypeFloat">>
    /\ value1 = F(-2) /\ value2 = F(0) /\ result = -1
    /\ compareValues(schema, value2, F(2)).val = -1

====
